---------------------------- MODULE Spec2Model ----------------------------
(***************************************************************************)
(* Model of the Notion job-archiving scripts Not_JoAps.py and              *)
(* Not_JoAps-WD.py: the filename sanitizer, the PNG -> size-bounded PDF    *)
(* compression loop and the title/company extraction cascade; and of       *)
(* Not_JoAps_CompanyDescriptions.py: the paginated database query and the  *)
(* main loop that writes company descriptions; and of main of the two      *)
(* archiving scripts with its cleanup.                                     *)
(*                                                                         *)
(* Python strings are modelled as sequences of one-character strings, so   *)
(* that the conversions (re.sub, split, strip, replace, capitalize) are    *)
(* computed character by character.  Python's None is the value None.      *)
(* Each call of a function is one run of the state machine: Init draws     *)
(* the function called and its arguments, the actions are the steps of     *)
(* its body.                                                               *)
(***************************************************************************)
EXTENDS Integers, Sequences, FiniteSets, TLC

VARIABLES
    call,        \* the function this run executes
    text,        \* sanitize_for_filename: its argument
    san_result,  \* sanitize_for_filename: the value returned (None before)
    img,         \* compress: the decoded bitmap (width, height, density)
    max_bytes,   \* compress: the byte budget
    scale,       \* compress: scale, in units of 1/ScaleUnit
    attempt,     \* compress: iterations of the for loop started so far
    target_w,    \* compress: target_w of the current attempt
    target_h,    \* compress: target_h of the current attempt
    size,        \* compress: os.path.getsize(tmp_pdf) of the current attempt
    files,       \* compress: the files on disk, file name -> size in bytes
    cpc,         \* compress: position in the function body
    script,      \* extract: the script whose extract_job_info_from_html runs
    html,        \* extract: the parsed page
    url_host,    \* extract: urlparse(url).hostname
    job_title,   \* extract: job_title
    company,     \* extract: company
    title_text,  \* extract: title_text
    step,        \* extract: index of the next statement of the body (0: the
                 \* call was left by an exception)
    ld_i,        \* extract: index of the next ld+json script of the loop
    pages,       \* descriptions main: the pages the query returned
    idx,         \* descriptions main: idx of the for loop
    dpc,         \* descriptions main: position in the function body
    desc,        \* descriptions main: desc of the page being processed
    groq,        \* descriptions main: what the last summarization call met
    updated_count,             \* descriptions main: its four counters
    skipped_no_company,
    skipped_already_has_desc,
    skipped_groq_fail,
    patched,     \* descriptions main: the (page, description) updates Notion accepted
    server,      \* query: the responses the database serves, by cursor
    next_cursor, \* query: next_cursor
    all_results, \* query: all_results
    sent,        \* query: the start_cursor of every request issued so far
    qpc,         \* query: position in the function body
    apc,         \* archiving main: position in the function body
    no_upload,   \* archiving main: args.no_upload
    png_path,    \* archiving main: png_path (NoPath for None)
    pdf_path,    \* archiving main: pdf_path (NoPath for None)
    disk,        \* archiving main: the local files and folders that exist
    attempted,   \* archiving main: the pipeline steps started so far
    failed       \* archiving main: the step whose exception left the try block

compress_vars == <<img, max_bytes, scale, attempt, target_w, target_h, size, files, cpc>>
sanitize_vars == <<text, san_result>>
extract_vars == <<script, html, url_host, job_title, company, title_text, step, ld_i>>
main_vars == <<pages, idx, dpc, desc, groq, updated_count, skipped_no_company,
               skipped_already_has_desc, skipped_groq_fail, patched>>
query_vars == <<server, next_cursor, all_results, sent, qpc>>
archive_vars == <<apc, no_upload, png_path, pdf_path, disk, attempted, failed>>
vars == <<call, sanitize_vars, compress_vars, extract_vars, main_vars, query_vars, archive_vars>>

None == <<"None">>

(***************************************************************************)
(* Bounds of the model.                                                    *)
(***************************************************************************)
MaxTextLen == 3      \* sanitize: longest enumerated argument
MaxDensity == 3      \* compress: tenths of a byte per pixel of the densest bitmap
MaxSignals == 2      \* extract: markup signals present in a page besides ld+json

(***************************************************************************)
(* String helpers (Python str methods and the re calls the scripts use).   *)
(***************************************************************************)
Whitespace == {" ", "\t", "\n"}

\* re.sub(r"\s+", " ", text): every maximal run of whitespace becomes one
\* space (each whitespace character becomes a space, and a space that
\* follows a space is dropped)
CollapseWhitespace(s) ==
    LET spaced == [i \in 1..Len(s) |-> IF s[i] \in Whitespace THEN " " ELSE s[i]]
        first == SelectSeq([i \in 1..Len(s) |-> i],
                           LAMBDA i : ~(spaced[i] = " " /\ i > 1 /\ spaced[i - 1] = " "))
    IN  [k \in 1..Len(first) |-> spaced[first[k]]]

RECURSIVE LStripChars(_, _)
LStripChars(s, cs) ==
    IF s # <<>> /\ Head(s) \in cs THEN LStripChars(Tail(s), cs) ELSE s

RECURSIVE RStripChars(_, _)
RStripChars(s, cs) ==
    IF s # <<>> /\ s[Len(s)] \in cs THEN RStripChars(SubSeq(s, 1, Len(s) - 1), cs) ELSE s

\* str.strip(chars)
StripChars(s, cs) == RStripChars(LStripChars(s, cs), cs)

\* str.strip()
Strip(s) == StripChars(s, Whitespace)

\* re.sub(r"[...]", "", text) for a character class
RemoveChars(s, cs) == SelectSeq(s, LAMBDA c : c \notin cs)

\* str.replace(old, new) for one-character old and new
ReplaceChar(s, old, new) == [i \in 1..Len(s) |-> IF s[i] = old THEN new ELSE s[i]]

LowerLetters ==
    <<"a", "b", "c", "d", "e", "f", "g", "h", "i", "j", "k", "l", "m",
      "n", "o", "p", "q", "r", "s", "t", "u", "v", "w", "x", "y", "z">>
UpperLetters ==
    <<"A", "B", "C", "D", "E", "F", "G", "H", "I", "J", "K", "L", "M",
      "N", "O", "P", "Q", "R", "S", "T", "U", "V", "W", "X", "Y", "Z">>
Digits == {"0", "1", "2", "3", "4", "5", "6", "7", "8", "9"}
Range(f) == {f[i] : i \in DOMAIN f}

ToUpper(c) ==
    IF c \in Range(LowerLetters)
    THEN UpperLetters[CHOOSE i \in DOMAIN LowerLetters : LowerLetters[i] = c]
    ELSE c

ToLower(c) ==
    IF c \in Range(UpperLetters)
    THEN LowerLetters[CHOOSE i \in DOMAIN UpperLetters : UpperLetters[i] = c]
    ELSE c

\* str.lower()
Lower(s) == [i \in 1..Len(s) |-> ToLower(s[i])]

\* str.capitalize(): first character upper-cased, the rest lower-cased
Capitalize(s) == [i \in 1..Len(s) |-> IF i = 1 THEN ToUpper(s[i]) ELSE ToLower(s[i])]

\* s.startswith(p)
StartsWith(s, p) == Len(s) >= Len(p) /\ SubSeq(s, 1, Len(p)) = p

RECURSIVE IndexOf(_, _)
\* 1-based index of the first occurrence of p in s, 0 when there is none
IndexOf(s, p) ==
    IF Len(s) < Len(p) THEN 0
    ELSE IF StartsWith(s, p) THEN 1
    ELSE LET r == IndexOf(Tail(s), p) IN IF r = 0 THEN 0 ELSE r + 1

\* p in s
Contains(s, p) == IndexOf(s, p) # 0

\* s.split(p, 1)[0]
BeforeFirst(s, p) ==
    LET i == IndexOf(s, p) IN IF i = 0 THEN s ELSE SubSeq(s, 1, i - 1)

\* s.split(p, 1)[1], for p in s
AfterFirst(s, p) == SubSeq(s, IndexOf(s, p) + Len(p), Len(s))

RECURSIVE SplitChar(_, _)
\* s.split(c) for a one-character separator: always at least one part
SplitChar(s, c) ==
    LET i == IndexOf(s, <<c>>)
    IN  IF i = 0 THEN <<s>>
        ELSE <<SubSeq(s, 1, i - 1)>> \o SplitChar(SubSeq(s, i + 1, Len(s)), c)

RECURSIVE RemoveAll(_, _)
\* s.replace(p, ""): every non-overlapping occurrence, left to right
RemoveAll(s, p) ==
    IF s = <<>> THEN <<>>
    ELSE IF StartsWith(s, p) THEN RemoveAll(SubSeq(s, Len(p) + 1, Len(s)), p)
    ELSE <<Head(s)>> \o RemoveAll(Tail(s), p)

RECURSIVE JoinWords(_)
\* " ".join(words)
JoinWords(ws) ==
    IF ws = <<>> THEN <<>>
    ELSE IF Len(ws) = 1 THEN ws[1]
    ELSE ws[1] \o <<" ">> \o JoinWords(Tail(ws))

\* s.split(): the whitespace-separated words, none of them empty
SplitWords(s) ==
    LET t == Strip(CollapseWhitespace(s))
    IN  IF t = <<>> THEN <<>> ELSE SplitChar(t, " ")

Min(a, b) == IF a < b THEN a ELSE b
Max(a, b) == IF a > b THEN a ELSE b

\* text[:n] with the cut left out
TruncateNothing(s, n) == s

\* text[:n]
Truncate(s, n) == SubSeq(s, 1, Min(Len(s), n))

\* Python truthiness of an Optional[str]: neither None nor ""
Truthy(s) == s # None /\ s # <<>>

RECURSIVE AllSeqs(_, _)
\* every sequence over alphabet cs of length at most n
AllSeqs(cs, n) ==
    IF n = 0 THEN {<<>>}
    ELSE LET shorter == AllSeqs(cs, n - 1)
         IN  shorter \cup {<<c>> \o t : c \in cs, t \in {u \in shorter : Len(u) = n - 1}}

(***************************************************************************)
(* sanitize_for_filename                                                   *)
(***************************************************************************)
ForbiddenCharsWithPlus == {"\\", "/", ":", "*", "?", "\"", "<", ">", "|", "+"}

ForbiddenChars == {"\\", "/", ":", "*", "?", "\"", "<", ">", "|"}
FilenameMaxLen == 80
Unknown == <<"U", "n", "k", "n", "o", "w", "n">>

sanitize_for_filename(t) ==
    IF ~Truthy(t) THEN Unknown
    ELSE LET t1 == Strip(CollapseWhitespace(t))
             t2 == RemoveChars(t1, ForbiddenChars)
             t3 == ReplaceChar(t2, " ", "_")
             t4 == Truncate(t3, FilenameMaxLen)
         IN  IF t4 = <<>> THEN Unknown ELSE t4

\* "C++ Dev / Team: A<B>"
ExampleTitle ==
    <<"C", "+", "+", " ", "D", "e", "v", " ", "/", " ",
      "T", "e", "a", "m", ":", " ", "A", "<", "B", ">">>

SanitizeAlphabet == {"a", " ", "\t", "/", "+"}

\* n times the character c
Repeat(c, n) == [i \in 1..n |-> c]

\* arguments around the 80-character cut: a run of letters of 78 to 81
\* characters with up to two characters of the alphabet before or after it
LongInputs ==
    LET edges == AllSeqs(SanitizeAlphabet, 2)
    IN  {Repeat("a", n) \o e : n \in 78..81, e \in edges}
        \cup {e \o Repeat("a", n) : n \in 78..81, e \in edges}

SanitizeInputs == AllSeqs(SanitizeAlphabet, MaxTextLen) \cup {ExampleTitle} \cup LongInputs

Sanitize ==
    /\ call = "sanitize"
    /\ san_result = None
    /\ san_result' = sanitize_for_filename(text)
    /\ UNCHANGED <<call, archive_vars, main_vars, query_vars, text, compress_vars, extract_vars>>

(***************************************************************************)
(* compress_png_to_pdf_under_size                                          *)
(***************************************************************************)
ScaleUnit == 15625     \* scale is held in units of 5^-6, in which 1.0 and the
                       \* six values 0.8^k that follow it are whole numbers
ScaleFloor == 6250     \* 0.4
min_width == 800
maxAttempts == 7
JpegName == "temp_jpeg"
TmpPdfName == "tmp_pdf"
PdfName == "pdf_path"
PngName == "png_path"

\* scale *= 1.25: the scale grows instead of shrinking
NextScaleGrowing(s) == (s * 5) \div 4

\* scale *= 0.9: the scale shrinks more slowly
NextScaleSlowly(s) == (s * 9) \div 10

\* scale *= 0.8 (exact for the seven values the loop can produce)
NextScale(s) == (s * 4) \div 5

\* max(min_width, int(width * scale))
TargetWidth(width, s) == Max(min_width, (width * s) \div ScaleUnit)

\* int(height * scale)
TargetHeight(height, s) == (height * s) \div ScaleUnit

\* The size of the PDF written for a w x h resample of bitmap b: the JPEG
\* payload, density tenths of a byte per pixel, dominates the file.
PdfSize(b, w, h) == (w * h * b.density) \div 10

\* Accept with the floor test at 0.5 instead of 0.4
AcceptFloorHalf(sz, budget, s) == sz <= budget \/ s <= ScaleUnit \div 2

\* Accept without the floor test: size <= max_bytes only
AcceptBudgetOnly(sz, budget, s) == sz <= budget

\* size <= max_bytes or scale <= 0.4
Accept(sz, budget, s) == sz <= budget \/ s <= ScaleFloor

Bitmaps == [width : {640, 1280, 2560}, height : {720, 8000}, density : 1..MaxDensity]
Budgets == {524288, 1048576, 5242880}

\* img = Image.open(png_path).convert("RGB"); scale = 1.0
OpenImage ==
    /\ call = "compress" /\ cpc = "open"
    /\ \/ cpc' = "loop"
       \/ cpc' = "raised"
    /\ UNCHANGED <<call, archive_vars, main_vars, query_vars, sanitize_vars, extract_vars, img, max_bytes, scale, attempt, target_w,
                   target_h, size, files>>

\* the resample made unstable: the height it produces may be one pixel short
ResizeUnstable ==
    /\ call = "compress" /\ cpc = "loop"
    /\ IF attempt < maxAttempts
       THEN /\ attempt' = attempt + 1
            /\ target_w' = TargetWidth(img.width, scale)
            /\ target_h' \in {TargetHeight(img.height, scale), TargetHeight(img.height, scale) - 1}
            /\ \/ cpc' = "save_jpeg"
               \/ cpc' = "raised"
       ELSE /\ cpc' = "fallback"
            /\ UNCHANGED <<attempt, target_w, target_h>>
    /\ UNCHANGED <<call, archive_vars, main_vars, query_vars, sanitize_vars, extract_vars, img, max_bytes, scale, size, files>>

\* for _ in range(7): target_w, target_h, img.resize(...); after the last
\* iteration control falls through to the fallback below the loop
Resize ==
    /\ call = "compress" /\ cpc = "loop"
    /\ IF attempt < maxAttempts
       THEN /\ attempt' = attempt + 1
            /\ target_w' = TargetWidth(img.width, scale)
            /\ target_h' = TargetHeight(img.height, scale)
            /\ \/ cpc' = "save_jpeg"
               \/ cpc' = "raised"
       ELSE /\ cpc' = "fallback"
            /\ UNCHANGED <<attempt, target_w, target_h>>
    /\ UNCHANGED <<call, archive_vars, main_vars, query_vars, sanitize_vars, extract_vars, img, max_bytes, scale, size, files>>

\* resized.save(temp_jpeg, "JPEG", quality=85); a failed save may or may not
\* leave the file it opened
SaveJpeg ==
    /\ call = "compress" /\ cpc = "save_jpeg"
    /\ \/ cpc' = "save_pdf" /\ files' = files \cup {JpegName}
       \/ cpc' = "raised" /\ files' \in {files, files \cup {JpegName}}
    /\ UNCHANGED <<call, archive_vars, main_vars, query_vars, sanitize_vars, extract_vars, img, max_bytes, scale, attempt, target_w,
                   target_h, size>>

\* with Image.open(temp_jpeg) as jpg_img: jpg_img.save(tmp_pdf, "PDF", resolution=72)
SavePdf ==
    /\ call = "compress" /\ cpc = "save_pdf"
    /\ \/ cpc' = "getsize" /\ files' = files \cup {TmpPdfName}
       \/ cpc' = "raised" /\ files' \in {files, files \cup {TmpPdfName}}
    /\ UNCHANGED <<call, archive_vars, main_vars, query_vars, sanitize_vars, extract_vars, img, max_bytes, scale, attempt, target_w,
                   target_h, size>>

\* size = os.path.getsize(tmp_pdf); if size <= max_bytes or scale <= 0.4: ...
\* else: scale *= 0.8
TestSize ==
    /\ call = "compress" /\ cpc = "getsize"
    /\ size' = PdfSize(img, target_w, target_h)
    /\ IF Accept(size', max_bytes, scale)
       THEN cpc' = "accept" /\ scale' = scale
       ELSE cpc' = "loop" /\ scale' = NextScale(scale)
    /\ UNCHANGED <<call, archive_vars, main_vars, query_vars, sanitize_vars, extract_vars, img, max_bytes, attempt, target_w, target_h, files>>

\* the move forgotten: the scratch document stays where it is
MoveTmpPdfForgotten(fs) == fs

\* shutil.move(tmp_pdf, pdf_path)
MoveTmpPdf(fs) == (fs \ {TmpPdfName}) \cup {PdfName}

\* if os.path.exists(temp_jpeg): os.remove(temp_jpeg)
RemoveJpeg(fs) == fs \ {JpegName}

\* shutil.move(tmp_pdf, pdf_path); remove temp_jpeg; return pdf_path
\* (the same three statements end the accepting branch and the fallback)
MoveAndReturn ==
    /\ call = "compress" /\ cpc \in {"accept", "fallback"}
    /\ \/ cpc' = "returned" /\ files' = RemoveJpeg(MoveTmpPdf(files))
       \/ cpc' = "raised" /\ files' = files
    /\ UNCHANGED <<call, archive_vars, main_vars, query_vars, sanitize_vars, extract_vars, img, max_bytes, scale, attempt, target_w,
                   target_h, size>>

CompressNext == OpenImage \/ Resize \/ SaveJpeg \/ SavePdf \/ TestSize \/ MoveAndReturn

(***************************************************************************)
(* extract_job_info_from_html                                              *)
(*                                                                         *)
(* html is the parsed page, held as what each query of the function        *)
(* returns on it: ld_json the <script type="application/ld+json"> elements *)
(* in document order, h1 the stripped text of the first <h1>,              *)
(* title_markers and company_markers the stripped text of the first        *)
(* element each selector of the two selector lists finds, og_title and     *)
(* og_site_name the content attribute of the meta element, title the       *)
(* <title> string, org_name the stripped text of the itemprop="name"       *)
(* element inside the itemprop="hiringOrganization" element.  None is      *)
(* "no such element".  url_host is urlparse(url).hostname.                 *)
(***************************************************************************)
\* "www."
WwwDot == <<"w", "w", "w", ".">>
\* "myworkdayjobs.com"
WorkdayDomain == 
    <<"m", "y", "w", "o", "r", "k", "d", "a", "y", "j", "o", "b",
      "s", ".", "c", "o", "m">>
\* " - "
DashSep == <<" ", "-", " ">>
\* " at "
AtSep == <<" ", "a", "t", " ">>
\* "Job from "
JobFrom == 
    <<"J", "o", "b", " ", "f", "r", "o", "m", " ">>
\* "www."
HostWww == <<"w", "w", "w", ".">>
\* "localhost"
HostLocal == 
    <<"l", "o", "c", "a", "l", "h", "o", "s", "t">>
\* "jobs.example.com"
HostExample == 
    <<"j", "o", "b", "s", ".", "e", "x", "a", "m", "p", "l", "e",
      ".", "c", "o", "m">>
\* "acme-corp.wd1.myworkdayjobs.com"
HostWorkday == 
    <<"a", "c", "m", "e", "-", "c", "o", "r", "p", ".", "w", "d",
      "1", ".", "m", "y", "w", "o", "r", "k", "d", "a", "y", "j",
      "o", "b", "s", ".", "c", "o", "m">>
\* "www.acme-corp.myworkdayjobs.com"
HostWwwWorkday == 
    <<"w", "w", "w", ".", "a", "c", "m", "e", "-", "c", "o", "r",
      "p", ".", "m", "y", "w", "o", "r", "k", "d", "a", "y", "j",
      "o", "b", "s", ".", "c", "o", "m">>
\* "Acme Corp"
AcmeCorp == 
    <<"A", "c", "m", "e", " ", "C", "o", "r", "p">>
\* "Data Engineer"
LdTitle == 
    <<"D", "a", "t", "a", " ", "E", "n", "g", "i", "n", "e", "e",
      "r">>
\* "Initech"
LdCompany == <<"I", "n", "i", "t", "e", "c", "h">>
\* "REQ-7"
LdIdentifier == <<"R", "E", "Q", "-", "7">>
\* "Staff Engineer"
H1Text == 
    <<"S", "t", "a", "f", "f", " ", "E", "n", "g", "i", "n", "e",
      "e", "r">>
\* "Backend Dev"
MarkerTitle == 
    <<"B", "a", "c", "k", "e", "n", "d", " ", "D", "e", "v">>
\* "Globex"
SiteName == <<"G", "l", "o", "b", "e", "x">>
\* "  "
BlankContent == <<" ", " ">>
\* "Umbrella"
OrgName == <<"U", "m", "b", "r", "e", "l", "l", "a">>
\* "Hooli"
MarkerCompany == <<"H", "o", "o", "l", "i">>
\* "Senior Engineer - Acme Inc"
TitleDash == 
    <<"S", "e", "n", "i", "o", "r", " ", "E", "n", "g", "i", "n",
      "e", "e", "r", " ", "-", " ", "A", "c", "m", "e", " ", "I",
      "n", "c">>
\* "Senior Engineer at Acme | Careers"
TitleAtPipe == 
    <<"S", "e", "n", "i", "o", "r", " ", "E", "n", "g", "i", "n",
      "e", "e", "r", " ", "a", "t", " ", "A", "c", "m", "e", " ",
      "|", " ", "C", "a", "r", "e", "e", "r", "s">>
\* "Dev at Foo | Bar - Jobs"
TitlePipeDash == 
    <<"D", "e", "v", " ", "a", "t", " ", "F", "o", "o", " ", "|",
      " ", "B", "a", "r", " ", "-", " ", "J", "o", "b", "s">>
\* "| Careers"
TitleOnlySuffix == 
    <<"|", " ", "C", "a", "r", "e", "e", "r", "s">>
SuffixWords ==
    <<<<"c", "a", "r", "e", "e", "r", "s">>,
      <<"c", "a", "r", "e", "e", "r">>,
      <<"j", "o", "b", "s">>,
      <<"j", "o", "b">>,
      <<"h", "i", "r", "i", "n", "g">>>>

WD == "Not_JoAps-WD.py"
Generic == "Not_JoAps.py"

\* (parsed_url.hostname or "").lower()
Hostname(h) == IF h = None THEN <<>> ELSE Lower(h)

hostname == Hostname(url_host)

\* is_workday = "myworkdayjobs.com" in hostname
is_workday == Contains(hostname, WorkdayDomain)

NoIdentifier == [kind |-> "none", name |-> None]
NoCandidate == [kind |-> "none", jt |-> None, comp |-> None]
Raised == [kind |-> "raise", jt |-> None, comp |-> None]

\* x.strip() if isinstance(x, str) else None
StripOrNone(x) == IF x = None THEN None ELSE Strip(x)

\* try_extract_jobposting_from_obj reading only the title field
try_extract_title_only(obj) ==
    IF ~obj.isdict \/ "JobPosting" \notin obj.type THEN NoCandidate
    ELSE [kind |-> "cand", jt |-> StripOrNone(obj.title),
          comp |-> StripOrNone(IF obj.org.kind = "dict" THEN obj.org.name ELSE None)]

\* try_extract_jobposting_from_obj: None, a (jt, comp) tuple, or the
\* AttributeError of .get on an identifier that is not an object
try_extract_jobposting_from_obj(obj) ==
    IF ~obj.isdict \/ "JobPosting" \notin obj.type THEN NoCandidate
    ELSE IF ~Truthy(obj.title) /\ obj.identifier.kind = "str" THEN Raised
    ELSE LET jt == IF Truthy(obj.title) THEN obj.title
                   ELSE IF obj.identifier.kind = "dict" THEN obj.identifier.name
                   ELSE None
             comp == IF obj.org.kind = "dict" THEN obj.org.name ELSE None
         IN  [kind |-> "cand", jt |-> StripOrNone(jt), comp |-> StripOrNone(comp)]

RECURSIVE FirstCandidate(_)
\* for item in data: candidate = try_extract...(item); if candidate: break
FirstCandidate(items) ==
    IF items = <<>> THEN NoCandidate
    ELSE LET r == try_extract_jobposting_from_obj(Head(items))
         IN  IF r.kind = "none" THEN FirstCandidate(Tail(items)) ELSE r

\* ScriptOutcome without the inner try: a json.loads error reaches the outer
\* try and ends the loop
ScriptOutcomeNoInnerTry(b) ==
    CASE b.kind = "empty" -> [kind |-> "skip", cand |-> NoCandidate]
      [] b.kind = "malformed" -> [kind |-> "abort", cand |-> NoCandidate]
      [] OTHER ->
            LET r == IF b.kind = "list" THEN FirstCandidate(b.items)
                     ELSE try_extract_jobposting_from_obj(b.items[1])
            IN  [kind |-> IF r.kind = "cand" THEN "found"
                          ELSE IF r.kind = "raise" THEN "abort" ELSE "skip",
                 cand |-> r]

\* What one iteration of the loop over the ld+json scripts does with script
\* b: "skip" (continue with the next script), "found" (assign and break),
\* "abort" (an exception reached the outer try, whose handler is pass: the
\* loop is left) or "raise" (an exception no handler catches; both try
\* statements catch Exception, so the function's own code yields none)
ScriptOutcome(b) ==
    CASE b.kind = "empty" -> [kind |-> "skip", cand |-> NoCandidate]
      [] b.kind = "malformed" -> [kind |-> "skip", cand |-> NoCandidate]
      [] b.kind = "list" ->
            LET r == FirstCandidate(b.items)
            IN  [kind |-> IF r.kind = "cand" THEN "found"
                          ELSE IF r.kind = "raise" THEN "abort" ELSE "skip",
                 cand |-> r]
      [] OTHER ->
            LET r == try_extract_jobposting_from_obj(b.items[1])
            IN  [kind |-> IF r.kind = "cand" THEN "found"
                          ELSE IF r.kind = "raise" THEN "abort" ELSE "skip",
                 cand |-> r]

\* The Workday brand: hostname with "www." removed, its first label, hyphens
\* to spaces, every word capitalized
WorkdayBrand(h) ==
    LET host == RemoveAll(h, WwwDot)
        brand == SplitChar(host, ".")[1]
    IN  IF brand = <<>> THEN <<>>
        ELSE LET words == SplitWords(ReplaceChar(brand, "-", " "))
             IN  JoinWords([i \in 1..Len(words) |-> Capitalize(words[i])])

\* title_text: og:title content if present, else the <title> string
PageTitleText(page) ==
    IF Truthy(page.og_title) THEN Strip(page.og_title)
    ELSE IF Truthy(page.title) THEN Strip(page.title)
    ELSE None

RECURSIVE FirstMarkerText(_)
\* for attr, value in selectors: el = soup.find(...); if el and text: break
FirstMarkerText(found) ==
    IF found = <<>> THEN None
    ELSE IF Truthy(Head(found)) THEN Head(found)
    ELSE FirstMarkerText(Tail(found))

\* the page title cut at " - " only
TitleCutAtDashOnly(t) == Strip(BeforeFirst(t, DashSep))

\* temp.split(" - ", 1)[0], then temp.split("|", 1)[0], then strip
TitleFromPageTitle(t) ==
    LET t1 == IF Contains(t, DashSep) THEN BeforeFirst(t, DashSep) ELSE t
        t2 == IF Contains(t1, <<"|">>) THEN BeforeFirst(t1, <<"|">>) ELSE t1
    IN  Strip(t2)

WordChar(c) == c \in Range(LowerLetters) \cup Range(UpperLetters) \cup Digits \cup {"_"}

RECURSIVE MatchSuffixWord(_, _)
\* length of the match of (Careers?|Jobs?|Hiring)\b at the start of s, trying
\* the words ws in the regex's order; 0 when none matches
MatchSuffixWord(s, ws) ==
    IF ws = <<>> THEN 0
    ELSE LET w == Head(ws)
         IN  IF /\ Len(s) >= Len(w)
                /\ Lower(SubSeq(s, 1, Len(w))) = w
                /\ (Len(s) = Len(w) \/ ~WordChar(s[Len(w) + 1]))
             THEN Len(w)
             ELSE MatchSuffixWord(s, Tail(ws))

RECURSIVE RemoveSuffixWords(_, _)
\* re.sub(r"\b(Careers?|Jobs?|Hiring)\b", "", s, flags=re.IGNORECASE);
\* afterWord: the character before s is a word character
RemoveSuffixWords(s, afterWord) ==
    IF s = <<>> THEN <<>>
    ELSE LET m == IF afterWord THEN 0 ELSE MatchSuffixWord(s, SuffixWords)
         IN  IF m > 0 THEN RemoveSuffixWords(SubSeq(s, m + 1, Len(s)), TRUE)
             ELSE <<Head(s)>> \o RemoveSuffixWords(Tail(s), WordChar(Head(s)))

SeparatorChars == {" ", "-", "|"}

\* title_text.split("|")[-1].strip(), suffix words removed, .strip(" -|")
CompanyAfterPipe(t) ==
    LET parts == SplitChar(t, "|")
        right_part == Strip(parts[Len(parts)])
    IN  StripChars(RemoveSuffixWords(right_part, FALSE), SeparatorChars)

\* the text after " at " without the cut at "|"
CompanyAfterAtUncut(t) == StripChars(AfterFirst(t, AtSep), SeparatorChars)

\* title_text.split(" at ", 1)[1].split("|")[0].strip(" -|")
CompanyAfterAt(t) ==
    StripChars(SplitChar(AfterFirst(t, AtSep), "|")[1], SeparatorChars)

\* host.replace("www.", ""), split on ".", second-to-last label if there are
\* two or more, else the first; capitalized
CompanyFromHostname(h) ==
    LET host == RemoveAll(h, WwwDot)
        parts == SplitChar(host, ".")
        base == IF Len(parts) >= 2 THEN parts[Len(parts) - 1] ELSE parts[1]
    IN  Capitalize(base)

\* the placeholder built like the company fallback, from the host without "www."
TitleFromHostWithoutWww(h) == JobFrom \o RemoveAll(h, WwwDot)

\* f"Job from {hostname or 'Unknown'}"
TitleFromHostname(h) == JobFrom \o (IF h = <<>> THEN Unknown ELSE h)

\* The statements of the function body in the order each script runs them
StepsOf(sc) ==
    IF sc = WD
    THEN <<"jsonld", "workday", "title_text", "h1", "title_markers",
           "page_title", "og_site_name", "schema_org", "title_pipe",
           "title_at", "hostname", "title_fallback">>
    ELSE <<"title_text", "h1", "title_markers", "page_title", "og_site_name",
           "schema_org", "company_markers", "title_pipe", "title_at",
           "hostname", "title_fallback">>

CurrentStep ==
    IF call = "extract" /\ step \in DOMAIN StepsOf(script)
    THEN StepsOf(script)[step] ELSE "done"

Done == call = "extract" /\ step = Len(StepsOf(script)) + 1

\* the call was left by an exception
ExtractRaised == call = "extract" /\ step = 0

\* --- 1) JSON-LD JobPosting: one iteration of the loop over the scripts
JsonLd ==
    /\ CurrentStep = "jsonld"
    /\ IF ld_i > Len(html.ld_json)
       THEN /\ step' = step + 1
            /\ UNCHANGED <<ld_i, job_title, company>>
       ELSE LET o == ScriptOutcome(html.ld_json[ld_i])
                last == ld_i = Len(html.ld_json)
            IN  /\ ld_i' = ld_i + 1
                /\ step' = IF o.kind = "raise" THEN 0
                           ELSE IF o.kind = "skip" /\ ~last THEN step ELSE step + 1
                /\ job_title' = IF o.kind = "found" /\ Truthy(o.cand.jt)
                                THEN o.cand.jt ELSE job_title
                /\ company' = IF o.kind = "found" /\ Truthy(o.cand.comp)
                              THEN o.cand.comp ELSE company
    /\ UNCHANGED <<call, archive_vars, main_vars, query_vars, sanitize_vars, compress_vars, script, html, url_host, title_text>>

\* the Workday step run only "if not company"
WorkdayIfMissing ==
    /\ CurrentStep = "workday"
    /\ step' = step + 1
    /\ company' = IF is_workday /\ WorkdayBrand(hostname) # <<>> /\ ~Truthy(company)
                  THEN WorkdayBrand(hostname) ELSE company
    /\ UNCHANGED <<call, archive_vars, main_vars, query_vars, sanitize_vars, compress_vars, script, html, url_host, title_text,
                   job_title, ld_i>>

\* --- 2) Workday host -> brand for company
Workday ==
    /\ CurrentStep = "workday"
    /\ step' = step + 1
    /\ company' = IF is_workday /\ WorkdayBrand(hostname) # <<>>
                  THEN WorkdayBrand(hostname) ELSE company
    /\ UNCHANGED <<call, archive_vars, main_vars, query_vars, sanitize_vars, compress_vars, script, html, url_host, title_text,
                   job_title, ld_i>>

TitleText ==
    /\ CurrentStep = "title_text"
    /\ step' = step + 1
    /\ title_text' = PageTitleText(html)
    /\ UNCHANGED <<call, archive_vars, main_vars, query_vars, sanitize_vars, compress_vars, script, html, url_host,
                   job_title, company, ld_i>>

\* the <h1> step without its guard
H1Unguarded == TRUE

\* Not_JoAps-WD.py guards the <h1> step by "if not job_title"; Not_JoAps.py
\* runs it first and unguarded
H1Guard == script = Generic \/ ~Truthy(job_title)

H1 ==
    /\ CurrentStep = "h1"
    /\ step' = step + 1
    /\ job_title' = IF H1Guard /\ Truthy(html.h1) THEN html.h1 ELSE job_title
    /\ UNCHANGED <<call, archive_vars, main_vars, query_vars, sanitize_vars, compress_vars, script, html, url_host, title_text,
                   company, ld_i>>

TitleMarkers ==
    /\ CurrentStep = "title_markers"
    /\ step' = step + 1
    /\ job_title' = IF ~Truthy(job_title) /\ Truthy(FirstMarkerText(html.title_markers))
                    THEN FirstMarkerText(html.title_markers) ELSE job_title
    /\ UNCHANGED <<call, archive_vars, main_vars, query_vars, sanitize_vars, compress_vars, script, html, url_host, title_text,
                   company, ld_i>>

PageTitle ==
    /\ CurrentStep = "page_title"
    /\ step' = step + 1
    /\ job_title' = IF ~Truthy(job_title) /\ Truthy(title_text)
                    THEN TitleFromPageTitle(title_text) ELSE job_title
    /\ UNCHANGED <<call, archive_vars, main_vars, query_vars, sanitize_vars, compress_vars, script, html, url_host, title_text,
                   company, ld_i>>

\* the og:site_name step without its guard
OgSiteNameUnguarded == TRUE

\* Not_JoAps-WD.py guards og:site_name by "if not company"; Not_JoAps.py
\* runs it first and unguarded
OgSiteNameGuard == script = Generic \/ ~Truthy(company)

OgSiteName ==
    /\ CurrentStep = "og_site_name"
    /\ step' = step + 1
    /\ company' = IF OgSiteNameGuard /\ Truthy(html.og_site_name)
                  THEN Strip(html.og_site_name) ELSE company
    /\ UNCHANGED <<call, archive_vars, main_vars, query_vars, sanitize_vars, compress_vars, script, html, url_host, title_text,
                   job_title, ld_i>>

SchemaOrg ==
    /\ CurrentStep = "schema_org"
    /\ step' = step + 1
    /\ company' = IF ~Truthy(company) /\ Truthy(html.org_name)
                  THEN html.org_name ELSE company
    /\ UNCHANGED <<call, archive_vars, main_vars, query_vars, sanitize_vars, compress_vars, script, html, url_host, title_text,
                   job_title, ld_i>>

CompanyMarkers ==
    /\ CurrentStep = "company_markers"
    /\ step' = step + 1
    /\ company' = IF ~Truthy(company) /\ Truthy(FirstMarkerText(html.company_markers))
                  THEN FirstMarkerText(html.company_markers) ELSE company
    /\ UNCHANGED <<call, archive_vars, main_vars, query_vars, sanitize_vars, compress_vars, script, html, url_host, title_text,
                   job_title, ld_i>>

TitlePipe ==
    /\ CurrentStep = "title_pipe"
    /\ step' = step + 1
    /\ company' = IF /\ ~Truthy(company) /\ Truthy(title_text)
                     /\ Contains(title_text, <<"|">>)
                     /\ CompanyAfterPipe(title_text) # <<>>
                  THEN CompanyAfterPipe(title_text) ELSE company
    /\ UNCHANGED <<call, archive_vars, main_vars, query_vars, sanitize_vars, compress_vars, script, html, url_host, title_text,
                   job_title, ld_i>>

TitleAt ==
    /\ CurrentStep = "title_at"
    /\ step' = step + 1
    /\ company' = IF /\ Truthy(title_text) /\ Contains(title_text, AtSep)
                     /\ ~Truthy(company)
                     /\ CompanyAfterAt(title_text) # <<>>
                  THEN CompanyAfterAt(title_text) ELSE company
    /\ UNCHANGED <<call, archive_vars, main_vars, query_vars, sanitize_vars, compress_vars, script, html, url_host, title_text,
                   job_title, ld_i>>

HostnameFallback ==
    /\ CurrentStep = "hostname"
    /\ step' = step + 1
    /\ company' = IF ~Truthy(company) THEN CompanyFromHostname(hostname) ELSE company
    /\ UNCHANGED <<call, archive_vars, main_vars, query_vars, sanitize_vars, compress_vars, script, html, url_host, title_text,
                   job_title, ld_i>>

TitleFallback ==
    /\ CurrentStep = "title_fallback"
    /\ step' = step + 1
    /\ job_title' = IF ~Truthy(job_title) THEN TitleFromHostname(hostname) ELSE job_title
    /\ UNCHANGED <<call, archive_vars, main_vars, query_vars, sanitize_vars, compress_vars, script, html, url_host, title_text,
                   company, ld_i>>

ExtractNext ==
    \/ JsonLd \/ Workday \/ TitleText \/ H1 \/ TitleMarkers \/ PageTitle
    \/ OgSiteName \/ SchemaOrg \/ CompanyMarkers \/ TitlePipe \/ TitleAt
    \/ HostnameFallback \/ TitleFallback

\* --- the pages and URLs the runs are checked on
Other == [isdict |-> TRUE, type |-> {"Organization"}, title |-> None,
          identifier |-> NoIdentifier, org |-> NoIdentifier]
Job == [isdict |-> TRUE, type |-> {"JobPosting"}, title |-> LdTitle,
        identifier |-> NoIdentifier, org |-> [kind |-> "dict", name |-> LdCompany]]
JobById == [isdict |-> TRUE, type |-> {"JobPosting", "Thing"}, title |-> None,
            identifier |-> [kind |-> "dict", name |-> LdIdentifier],
            org |-> NoIdentifier]
JobBadId == [isdict |-> TRUE, type |-> {"JobPosting"}, title |-> None,
             identifier |-> [kind |-> "str", name |-> None],
             org |-> [kind |-> "dict", name |-> LdCompany]]
Scalar == [isdict |-> FALSE, type |-> {}, title |-> None,
           identifier |-> NoIdentifier, org |-> NoIdentifier]

EmptyScript == [kind |-> "empty", items |-> <<>>]
Malformed == [kind |-> "malformed", items |-> <<>>]
Dict(o) == [kind |-> "dict", items |-> <<o>>]
List(os) == [kind |-> "list", items |-> os]

LdJsonInputs ==
    { <<>>,
      <<Dict(Job)>>,
      <<Malformed>>,
      <<Malformed, Dict(Job)>>,
      <<EmptyScript, Dict(Job)>>,
      <<Dict(Other), Dict(Job)>>,
      <<Dict(Scalar), List(<<Other, Job>>)>>,
      <<List(<<Scalar, Other>>), Dict(JobById)>>,
      <<Dict(JobById), Dict(Job)>>,
      <<Dict(JobBadId), Dict(Job)>>,
      <<Dict(Job), Malformed>> }

NoTitleMarkers == <<None, None, None, None, None>>
NoCompanyMarkers == <<None, None, None, None>>

Pages ==
    [ ld_json : LdJsonInputs,
      h1 : {None, <<>>, H1Text},
      title_markers : {NoTitleMarkers,
                       <<None, MarkerTitle, None, None, None>>,
                       <<<<>>, None, MarkerTitle, None, None>>},
      og_title : {None, <<>>, BlankContent, TitlePipeDash, TitleOnlySuffix},
      title : {None, TitleDash, TitleAtPipe},
      og_site_name : {None, BlankContent, SiteName},
      org_name : {None, OrgName},
      company_markers : {NoCompanyMarkers,
                         <<None, MarkerCompany, None, None>>,
                         <<<<>>, None, MarkerCompany, None>>} ]

\* how many of the page's markup signals (other than ld+json) are present
Signals(page) ==
    Cardinality({f \in {"h1", "og_title", "title", "og_site_name", "org_name"} :
                     page[f] # None})
    + (IF page.title_markers # NoTitleMarkers THEN 1 ELSE 0)
    + (IF page.company_markers # NoCompanyMarkers THEN 1 ELSE 0)

UrlHosts == {None, HostWww, HostLocal, HostExample, HostWorkday, HostWwwWorkday}

(***************************************************************************)
(* Not_JoAps_CompanyDescriptions.py: main                                  *)
(*                                                                         *)
(* A Notion property is held as its type and the values main reads from    *)
(* it: for title and rich_text the plain_text of each part (None when the  *)
(* part has none), for select and multi_select the option names.  A        *)
(* property the page does not have has type "missing".                     *)
(***************************************************************************)
MaxPages == 2        \* descriptions: most pages the query returns

\* max_chars of generate_company_description
max_chars == 400

\* "Acme"
Acme == <<"A", "c", "m", "e">>
\* "Sells anvils."
Summary ==
    <<"S", "e", "l", "l", "s", " ", "a", "n", "v", "i", "l", "s", ".">>
\* a summary of 405 characters, a space every 50
LongSummary == [i \in 1..405 |-> IF i % 50 = 0 THEN " " ELSE "a"]
\* the one character U+2026
Ellipsis == "..."
\* the exception of a call no handler catches
Uncaught == <<"Uncaught">>

MissingProp == [type |-> "missing", parts |-> <<>>]
RichText(parts) == [type |-> "rich_text", parts |-> parts]
TitleProp(parts) == [type |-> "title", parts |-> parts]
Select(names) == [type |-> "select", parts |-> names]

RECURSIVE Concat(_)
\* "".join(texts)
Concat(ts) == IF ts = <<>> THEN <<>> ELSE Head(ts) \o Concat(Tail(ts))

\* get_text_property: the stripped plain text of a title or rich_text
\* property, the option name of a select, "" otherwise
get_text_property(prop) ==
    CASE prop.type \in {"title", "rich_text"} ->
            Strip(Concat(SelectSeq(prop.parts, Truthy)))
      [] prop.type = "select" /\ prop.parts # <<>> -> prop.parts[1]
      [] OTHER -> <<>>

\* has_nonempty_rich_text answering False for every property
has_no_text(prop) == FALSE

\* has_nonempty_rich_text: a rich_text property one of whose parts has
\* plain text that is not blank
has_nonempty_rich_text(prop) ==
    /\ prop.type = "rich_text"
    /\ \E i \in DOMAIN prop.parts :
          Strip(IF Truthy(prop.parts[i]) THEN prop.parts[i] ELSE <<>>) # <<>>

\* desc.rsplit(" ", 1)[0]
BeforeLastSpace(d) ==
    LET spaces == {i \in 1..Len(d) : d[i] = " "}
    IN  IF spaces = {} THEN d
        ELSE SubSeq(d, 1, (CHOOSE i \in spaces : \A j \in spaces : i >= j) - 1)

\* What the summarization service answers to one request: the request
\* raised RequestException, a status that is not OK, an OK status with a body
\* that is not JSON, or a JSON body with its choices and the content of the
\* first
GroqResponses ==
    [kind : {"exception", "not_ok", "not_json", "no_choices"}, content : {None}]
    \cup [kind : {"content"}, content : {None, <<>>, BlankContent, Summary, LongSummary}]

\* no summarization call made yet
NoResponse == [kind |-> "none", content |-> None]

\* the responses that carry no description
GroqFailures ==
    {r \in GroqResponses : r.kind # "content" \/ r.content \notin {Summary, LongSummary}}

\* generate_company_description: the description, None, or Uncaught when
\* resp.json(), which is outside the try, raises on a body that is not JSON
generate_company_description(company_name, resp) ==
    IF company_name = <<>> THEN None
    ELSE IF resp.kind = "exception" THEN None
    ELSE IF resp.kind = "not_ok" THEN None
    ELSE IF resp.kind = "not_json" THEN Uncaught
    ELSE IF resp.kind = "no_choices" THEN None
    ELSE LET d == Strip(IF Truthy(resp.content) THEN resp.content ELSE <<>>)
         IN  IF d = <<>> THEN None
             ELSE IF Len(d) > max_chars
                  THEN RStripChars(BeforeLastSpace(SubSeq(d, 1, max_chars)), Whitespace)
                       \o <<Ellipsis>>
                  ELSE d

\* the Company and Company Description properties of the pages inspected
CompanyProps == {MissingProp, RichText(<<BlankContent>>), RichText(<<Acme>>), Select(<<Acme>>)}
DescriptionProps ==
    {MissingProp, RichText(<<None, BlankContent>>), RichText(<<Summary>>), TitleProp(<<Summary>>)}

\* company = get_text_property(properties, "Company") of the page in hand
PageCompany == get_text_property(pages[idx].company)

\* pages = query_database_excluding_resources()
QueryPages ==
    /\ call = "main" /\ dpc = "query"
    /\ \/ \E ps \in UNION {[1..n -> [company : CompanyProps, description : DescriptionProps]] :
                             n \in 0..MaxPages} :
             pages' = ps /\ idx' = 1 /\ dpc' = "page"
       \/ pages' = pages /\ idx' = idx /\ dpc' = "aborted"
    /\ UNCHANGED <<call, archive_vars, sanitize_vars, compress_vars, extract_vars, query_vars, desc, groq,
                   updated_count, skipped_no_company, skipped_already_has_desc,
                   skipped_groq_fail, patched>>

\* one iteration of the for loop up to the summarization call: the two
\* skips, or on to the call
InspectPage ==
    /\ call = "main" /\ dpc = "page" /\ idx <= Len(pages)
    /\ IF PageCompany = <<>>
       THEN /\ skipped_no_company' = skipped_no_company + 1
            /\ idx' = idx + 1
            /\ UNCHANGED <<dpc, skipped_already_has_desc>>
       ELSE IF has_nonempty_rich_text(pages[idx].description)
       THEN /\ skipped_already_has_desc' = skipped_already_has_desc + 1
            /\ idx' = idx + 1
            /\ UNCHANGED <<dpc, skipped_no_company>>
       ELSE /\ dpc' = "generate"
            /\ UNCHANGED <<idx, skipped_no_company, skipped_already_has_desc>>
    /\ UNCHANGED <<call, archive_vars, sanitize_vars, compress_vars, extract_vars, query_vars, pages, desc,
                   groq, updated_count, skipped_groq_fail, patched>>

\* desc = generate_company_description(company); if not desc: ... continue
Generate ==
    /\ call = "main" /\ dpc = "generate"
    /\ \E resp \in GroqResponses :
          LET d == generate_company_description(PageCompany, resp)
          IN  /\ groq' = resp
              /\ IF d = Uncaught
                 THEN /\ dpc' = "aborted"
                      /\ UNCHANGED <<idx, desc, skipped_groq_fail>>
                 ELSE IF ~Truthy(d)
                 THEN /\ skipped_groq_fail' = skipped_groq_fail + 1
                      /\ idx' = idx + 1 /\ dpc' = "page"
                      /\ desc' = d
                 ELSE /\ desc' = d /\ dpc' = "update"
                      /\ UNCHANGED <<idx, skipped_groq_fail>>
    /\ UNCHANGED <<call, archive_vars, sanitize_vars, compress_vars, extract_vars, query_vars, pages,
                   updated_count, skipped_no_company, skipped_already_has_desc, patched>>

\* try: update_company_description(page_id, desc) except RuntimeError:
\* continue; updated_count += 1.  requests.patch may also raise, which no
\* handler catches
Update ==
    /\ call = "main" /\ dpc = "update"
    /\ \/ /\ patched' = Append(patched, [page |-> idx, description |-> desc])
          /\ updated_count' = updated_count + 1
          /\ idx' = idx + 1 /\ dpc' = "page"
       \/ /\ idx' = idx + 1 /\ dpc' = "page"
          /\ UNCHANGED <<patched, updated_count>>
       \/ /\ dpc' = "aborted"
          /\ UNCHANGED <<idx, patched, updated_count>>
    /\ UNCHANGED <<call, archive_vars, sanitize_vars, compress_vars, extract_vars, query_vars, pages, desc,
                   groq, skipped_no_company, skipped_already_has_desc, skipped_groq_fail>>

\* the for loop is exhausted: the summary is printed and main returns
Finish ==
    /\ call = "main" /\ dpc = "page" /\ idx > Len(pages)
    /\ dpc' = "done"
    /\ UNCHANGED <<call, archive_vars, sanitize_vars, compress_vars, extract_vars, query_vars, pages, idx,
                   desc, groq, updated_count, skipped_no_company, skipped_already_has_desc,
                   skipped_groq_fail, patched>>

MainNext == QueryPages \/ InspectPage \/ Generate \/ Update \/ Finish

(***************************************************************************)
(* Not_JoAps_CompanyDescriptions.py: query_database_excluding_resources     *)
(*                                                                         *)
(* The database is held as the responses it serves: server[k] answers the  *)
(* request whose start_cursor designates result page k (the request        *)
(* without start_cursor gets page 1).  A cursor is the number of the page  *)
(* it designates, 0 standing for None.                                     *)
(***************************************************************************)
MaxResultPages == 3      \* query: most result pages of the database

\* the page ids of result page k: k of them, all distinct
ResultsOfPage(k) == [i \in 1..k |-> 10 * k + i]

\* the databases: every page but the last may or may not announce a
\* successor; the last one lacks has_more or lacks next_cursor
Servers ==
    UNION {{sv \in [1..n -> [has_more : BOOLEAN, next_cursor : 0..n + 1]] :
               /\ \A k \in 1..n : sv[k].next_cursor \in {0, k + 1}
               /\ ~(sv[n].has_more /\ sv[n].next_cursor # 0)} : n \in 1..MaxResultPages}

\* the response to a request: start_cursor absent is the first page
Response(cursor) ==
    LET k == IF cursor = 0 THEN 1 ELSE cursor
    IN  [results |-> ResultsOfPage(k), has_more |-> server[k].has_more,
         next_cursor |-> server[k].next_cursor]

\* all_results = results: the list is replaced instead of extended
ExtendReplacing(all, results) == results

\* all_results.extend(results)
Extend(all, results) == all \o results

\* data.get("has_more") and data.get("next_cursor")
HasNextPage(data) == data.has_more /\ data.next_cursor # 0

\* one iteration of the while loop: the request with the cursor in hand, the
\* RuntimeError of a response that is not OK, the results appended, and the
\* next cursor taken or the loop left
QueryRequest ==
    /\ call = "query" /\ qpc = "loop"
    /\ sent' = Append(sent, next_cursor)
    /\ \/ LET data == Response(next_cursor)
          IN  /\ all_results' = Extend(all_results, data.results)
              /\ IF HasNextPage(data)
                 THEN next_cursor' = data.next_cursor /\ qpc' = "loop"
                 ELSE next_cursor' = next_cursor /\ qpc' = "returned"
       \/ /\ qpc' = "raised"
          /\ UNCHANGED <<all_results, next_cursor>>
    /\ UNCHANGED <<call, archive_vars, sanitize_vars, compress_vars, extract_vars, main_vars, server>>

(***************************************************************************)
(* Not_JoAps.py and Not_JoAps-WD.py: main                                  *)
(*                                                                         *)
(* The pipeline steps of the try block, each of which returns or raises,   *)
(* and the three parts of the finally block.  disk holds the names of the  *)
(* local files that exist: the captured PNG and the scratch JPEG (both in  *)
(* the captures folder), the PDF and its scratch copy (in the working      *)
(* directory) and the captures folder itself.                              *)
(***************************************************************************)
NoPath == "None"
CapturesDir == "captures_dir"
NoFailure == "none"

\* the pipeline steps of the try block, in order; the upload is left out
\* under --no-upload
PipelineSteps(skipUpload) ==
    IF skipUpload THEN <<"schema", "capture", "confirm", "pdf", "create">>
    ELSE <<"schema", "capture", "confirm", "pdf", "upload", "create">>

\* the step after step st, the finally block after the last
StepAfter(st, skipUpload) ==
    LET steps == PipelineSteps(skipUpload)
        i == CHOOSE k \in DOMAIN steps : steps[k] = st
    IN  IF i = Len(steps) THEN "cleanup_pdf" ELSE steps[i + 1]

\* an exception in the try block: control passes to the finally block
Raise(st) == apc' = "cleanup_pdf" /\ failed' = st

\* db_properties = get_database_properties()
FetchSchema ==
    /\ call = "archive" /\ apc = "schema"
    /\ attempted' = attempted \cup {"schema"}
    /\ \/ apc' = StepAfter("schema", no_upload) /\ failed' = failed
       \/ Raise("schema")
    /\ UNCHANGED <<call, sanitize_vars, compress_vars, extract_vars, main_vars, query_vars,
                   no_upload, png_path, pdf_path, disk>>

\* png_path, html = capture_fullpage_screenshot(url, out_dir=captures_dir):
\* the folder is made, the screenshot written, the page content read;
\* png_path is assigned only when the call returns
CaptureScreenshot ==
    /\ call = "archive" /\ apc = "capture"
    /\ attempted' = attempted \cup {"capture"}
    /\ \/ /\ disk' = disk \cup {CapturesDir, PngName}
          /\ png_path' = PngName
          /\ apc' = StepAfter("capture", no_upload) /\ failed' = failed
       \/ /\ disk' \in {disk, disk \cup {CapturesDir}, disk \cup {CapturesDir, PngName}}
          /\ png_path' = png_path
          /\ Raise("capture")
    /\ UNCHANGED <<call, sanitize_vars, compress_vars, extract_vars, main_vars, query_vars,
                   no_upload, pdf_path>>

\* extract_job_info_from_html, the two prompts, the file name: pdf_path is
\* assigned; a prompt raises when the input is closed
ConfirmFields ==
    /\ call = "archive" /\ apc = "confirm"
    /\ attempted' = attempted \cup {"confirm"}
    /\ \/ /\ pdf_path' = PdfName
          /\ apc' = StepAfter("confirm", no_upload) /\ failed' = failed
       \/ /\ pdf_path' = pdf_path
          /\ Raise("confirm")
    /\ UNCHANGED <<call, sanitize_vars, compress_vars, extract_vars, main_vars, query_vars,
                   no_upload, png_path, disk>>

\* pdf_path = compress_png_to_pdf_under_size(png_path, pdf_path, MAX_PDF_BYTES):
\* the PDF is written, or the call raises and may leave its scratch files
ConvertToPdf ==
    /\ call = "archive" /\ apc = "pdf"
    /\ attempted' = attempted \cup {"pdf"}
    /\ \/ /\ disk' = disk \cup {PdfName}
          /\ apc' = StepAfter("pdf", no_upload) /\ failed' = failed
       \/ /\ \E left \in SUBSET {JpegName, TmpPdfName} : disk' = disk \cup left
          /\ Raise("pdf")
    /\ UNCHANGED <<call, sanitize_vars, compress_vars, extract_vars, main_vars, query_vars,
                   no_upload, png_path, pdf_path>>

\* if not args.no_upload: pdf_upload_id = upload_pdf_to_notion(pdf_path)
UploadPdf ==
    /\ call = "archive" /\ apc = "upload"
    /\ attempted' = attempted \cup {"upload"}
    /\ \/ apc' = StepAfter("upload", no_upload) /\ failed' = failed
       \/ Raise("upload")
    /\ UNCHANGED <<call, sanitize_vars, compress_vars, extract_vars, main_vars, query_vars,
                   no_upload, png_path, pdf_path, disk>>

\* page_id = create_notion_page(...)
CreatePage ==
    /\ call = "archive" /\ apc = "create"
    /\ attempted' = attempted \cup {"create"}
    /\ \/ apc' = StepAfter("create", no_upload) /\ failed' = failed
       \/ Raise("create")
    /\ UNCHANGED <<call, sanitize_vars, compress_vars, extract_vars, main_vars, query_vars,
                   no_upload, png_path, pdf_path, disk>>

\* if path and os.path.exists(path): the finally block asks nothing else
\* before it removes a file
RemoveInFinally(path) == path # NoPath /\ path \in disk

\* finally: if pdf_path and os.path.exists(pdf_path): os.remove(pdf_path),
\* an exception of which is caught and reported
CleanupPdf ==
    /\ call = "archive" /\ apc = "cleanup_pdf"
    /\ apc' = "cleanup_png"
    /\ IF RemoveInFinally(pdf_path)
       THEN disk' \in {disk \ {pdf_path}, disk}
       ELSE disk' = disk
    /\ UNCHANGED <<call, sanitize_vars, compress_vars, extract_vars, main_vars, query_vars,
                   no_upload, png_path, pdf_path, attempted, failed>>

\* finally: if png_path and os.path.exists(png_path): os.remove(png_path)
CleanupPng ==
    /\ call = "archive" /\ apc = "cleanup_png"
    /\ apc' = "cleanup_dir"
    /\ IF RemoveInFinally(png_path)
       THEN disk' \in {disk \ {png_path}, disk}
       ELSE disk' = disk
    /\ UNCHANGED <<call, sanitize_vars, compress_vars, extract_vars, main_vars, query_vars,
                   no_upload, png_path, pdf_path, attempted, failed>>

\* finally: the captures folder is removed if it is empty; then main
\* returns, or the exception of the try block goes on
CleanupDir ==
    /\ call = "archive" /\ apc = "cleanup_dir"
    /\ apc' = IF failed = NoFailure THEN "returned" ELSE "raised"
    /\ IF CapturesDir \in disk /\ disk \cap {PngName, JpegName} = {}
       THEN disk' \in {disk \ {CapturesDir}, disk}
       ELSE disk' = disk
    /\ UNCHANGED <<call, sanitize_vars, compress_vars, extract_vars, main_vars, query_vars,
                   no_upload, png_path, pdf_path, attempted, failed>>

ArchiveNext ==
    \/ FetchSchema \/ CaptureScreenshot \/ ConfirmFields \/ ConvertToPdf
    \/ UploadPdf \/ CreatePage \/ CleanupPdf \/ CleanupPng \/ CleanupDir

(***************************************************************************)
(* Specification                                                           *)
(***************************************************************************)
SanitizeIdle == text = None /\ san_result = None
CompressIdle ==
    /\ img = None /\ max_bytes = 0 /\ scale = ScaleUnit /\ attempt = 0
    /\ target_w = 0 /\ target_h = 0 /\ size = 0 /\ files = {} /\ cpc = "idle"
ExtractIdle ==
    /\ script = None /\ html = None /\ url_host = None /\ job_title = None
    /\ company = None /\ title_text = None /\ step = 0 /\ ld_i = 0

ArchiveIdle ==
    /\ apc = "idle" /\ no_upload = FALSE /\ png_path = NoPath /\ pdf_path = NoPath
    /\ disk = {} /\ attempted = {} /\ failed = NoFailure
MainIdle ==
    /\ pages = <<>> /\ idx = 0 /\ dpc = "idle" /\ desc = None /\ groq = NoResponse
    /\ updated_count = 0 /\ skipped_no_company = 0 /\ skipped_already_has_desc = 0
    /\ skipped_groq_fail = 0 /\ patched = <<>>
QueryIdle ==
    /\ server = <<>> /\ next_cursor = 0 /\ all_results = <<>> /\ sent = <<>> /\ qpc = "idle"

InitSanitize ==
    /\ call = "sanitize"
    /\ text \in SanitizeInputs \cup {None}
    /\ san_result = None
    /\ CompressIdle /\ ExtractIdle /\ MainIdle /\ QueryIdle /\ ArchiveIdle

InitCompress ==
    /\ call = "compress"
    /\ img \in Bitmaps
    /\ max_bytes \in Budgets
    /\ scale = ScaleUnit /\ attempt = 0 /\ target_w = 0 /\ target_h = 0 /\ size = 0
    /\ files = {PngName}
    /\ cpc = "open"
    /\ SanitizeIdle /\ ExtractIdle /\ MainIdle /\ QueryIdle /\ ArchiveIdle

InitExtract ==
    /\ call = "extract"
    /\ script \in {Generic, WD}
    /\ html \in {page \in Pages : Signals(page) <= MaxSignals}
    /\ url_host \in UrlHosts
    /\ job_title = None /\ company = None /\ title_text = None
    /\ step = 1 /\ ld_i = 1
    /\ SanitizeIdle /\ CompressIdle /\ MainIdle /\ QueryIdle /\ ArchiveIdle

InitMain ==
    /\ call = "main"
    /\ pages = <<>> /\ idx = 0 /\ dpc = "query" /\ desc = None /\ groq = NoResponse
    /\ updated_count = 0 /\ skipped_no_company = 0 /\ skipped_already_has_desc = 0
    /\ skipped_groq_fail = 0 /\ patched = <<>>
    /\ SanitizeIdle /\ CompressIdle /\ ExtractIdle /\ QueryIdle /\ ArchiveIdle

InitQuery ==
    /\ call = "query"
    /\ server \in Servers
    /\ next_cursor = 0 /\ all_results = <<>> /\ sent = <<>> /\ qpc = "loop"
    /\ SanitizeIdle /\ CompressIdle /\ ExtractIdle /\ MainIdle /\ ArchiveIdle

\* a run starts with whatever earlier runs left in the working directory
InitArchive ==
    /\ call = "archive"
    /\ apc = "schema" /\ no_upload \in BOOLEAN
    /\ png_path = NoPath /\ pdf_path = NoPath
    /\ disk \in SUBSET {CapturesDir, PdfName}
    /\ attempted = {} /\ failed = NoFailure
    /\ SanitizeIdle /\ CompressIdle /\ ExtractIdle /\ MainIdle /\ QueryIdle

Init == InitSanitize \/ InitCompress \/ InitExtract \/ InitMain \/ InitQuery \/ InitArchive

Next == Sanitize \/ CompressNext \/ ExtractNext \/ MainNext \/ QueryRequest \/ ArchiveNext

Spec == Init /\ [][Next]_vars

\* One specification per function.  The scripts are sequential programs: a
\* call that can take a step takes it, which is the weak fairness stated.
SanitizeSpec == InitSanitize /\ [][Sanitize]_vars /\ WF_vars(Sanitize)
CompressSpec == InitCompress /\ [][CompressNext]_vars /\ WF_vars(CompressNext)
ExtractSpec == InitExtract /\ [][ExtractNext]_vars /\ WF_vars(ExtractNext)
MainSpec == InitMain /\ [][MainNext]_vars /\ WF_vars(MainNext)
QuerySpec == InitQuery /\ [][QueryRequest]_vars /\ WF_vars(QueryRequest)
ArchiveSpec == InitArchive /\ [][ArchiveNext]_vars /\ WF_vars(ArchiveNext)

(***************************************************************************)
(* Properties                                                              *)
(***************************************************************************)
Returned == call = "compress" /\ cpc = "returned"
Terminated == call = "compress" /\ cpc \in {"returned", "raised"}

\* C1 (as stated): a returned document is within the budget, or was returned
\* only after maxAttempts attempts.
C1_WithinBudgetOrAllAttempts ==
    Returned => size <= max_bytes \/ attempt = maxAttempts

\* C1 (amended): a returned document is within the budget, or was returned
\* when scale had fallen to the 0.4 floor or after maxAttempts attempts; an
\* over-budget document is never returned after fewer than 6 attempts.
C1_WithinBudgetOrFloor ==
    Returned /\ size > max_bytes =>
        /\ scale <= ScaleFloor \/ attempt = maxAttempts
        /\ attempt >= 6

C1_Witness == Returned /\ size > max_bytes /\ attempt = 6 /\ scale <= ScaleFloor

\* C2: for a bitmap at least min_width wide the call never starts more than
\* maxAttempts attempts, and it ends: by an error of the imaging library or
\* the file system, or by returning with the document at pdf_path.
C2_TerminatesWithinMaxAttempts ==
    /\ [](img.width >= min_width => attempt <= maxAttempts)
    /\ [](img.width >= min_width /\ Returned => attempt >= 1 /\ PdfName \in files)
    /\ <>(img.width >= min_width => Terminated)

C2_Witness ==
    Returned /\ img.width >= min_width /\ attempt = 6 /\ PdfName \in files

\* C3 (as stated): when the call ends, by return or by error, neither the
\* intermediate JPEG nor the scratch document is left on disk.
C3_TempFilesRemoved ==
    Terminated => JpegName \notin files /\ TmpPdfName \notin files

\* C4 (as stated): the title and the company returned are non-empty strings.
C4_TitleAndCompanyNonEmpty ==
    Done => Truthy(job_title) /\ Truthy(company)

\* The (jt, comp) the JSON-LD step leaves, computed over a list of scripts:
\* the candidate of the first script that yields one, unless an exception
\* ended the loop before
RECURSIVE LdResult(_)
LdResult(scripts) ==
    IF scripts = <<>> THEN <<None, None>>
    ELSE LET o == ScriptOutcome(Head(scripts))
         IN  CASE o.kind = "skip" -> LdResult(Tail(scripts))
               [] o.kind = "abort" -> <<None, None>>
               [] OTHER -> <<IF Truthy(o.cand.jt) THEN o.cand.jt ELSE None,
                             IF Truthy(o.cand.comp) THEN o.cand.comp ELSE None>>

WellFormed(scripts) == SelectSeq(scripts, LAMBDA b : b.kind \notin {"malformed", "empty"})

C6_WorkdayBrandPreempts ==
    Done /\ script = WD /\ is_workday => company = AcmeCorp

C6_Witness ==
    /\ Done /\ script = WD /\ url_host = HostWwwWorkday
    /\ html.ld_json = <<Dict(Job)>> /\ html.og_site_name = SiteName
    /\ company = AcmeCorp

RECURSIVE Flatten(_)
\* the objects of the well-formed scripts, in document order
Flatten(scripts) ==
    IF scripts = <<>> THEN <<>> ELSE Head(scripts).items \o Flatten(Tail(scripts))

IsJobPosting(o) == o.isdict /\ "JobPosting" \in o.type

\* the embedded objects typed JobPosting, in document order
JobPostings(page) == SelectSeq(Flatten(WellFormed(page.ld_json)), IsJobPosting)

RECURSIVE FirstNonEmpty(_, _)
\* the first non-empty candidate, the fallback when there is none
FirstNonEmpty(candidates, fallback) ==
    IF candidates = <<>> THEN fallback
    ELSE IF Truthy(Head(candidates)) THEN Head(candidates)
    ELSE FirstNonEmpty(Tail(candidates), fallback)

\* the title field of the first JobPosting
JobPostingTitle(page) ==
    LET jobs == JobPostings(page)
    IN  IF jobs = <<>> THEN None ELSE StripOrNone(jobs[1].title)

\* the title field of the first JobPosting or, when it is empty, the name of
\* its identifier object
JobPostingTitleOrIdentifier(page) ==
    LET jobs == JobPostings(page)
    IN  IF jobs = <<>> THEN None
        ELSE IF Truthy(jobs[1].title) THEN Strip(jobs[1].title)
        ELSE IF jobs[1].identifier.kind = "dict" THEN StripOrNone(jobs[1].identifier.name)
        ELSE None

\* the hiringOrganization name of the first JobPosting
JobPostingCompany(page) ==
    LET jobs == JobPostings(page)
    IN  IF jobs = <<>> \/ jobs[1].org.kind # "dict" THEN None
        ELSE StripOrNone(jobs[1].org.name)

\* the same, which the JSON-LD step never reaches when the JobPosting has no
\* title and an identifier that is not an object
JobPostingCompanyRead(page) ==
    LET jobs == JobPostings(page)
    IN  IF jobs = <<>> THEN None
        ELSE IF ~Truthy(jobs[1].title) /\ jobs[1].identifier.kind = "str" THEN None
        ELSE JobPostingCompany(page)

TruncatedPageTitle(page) ==
    IF Truthy(PageTitleText(page)) THEN TitleFromPageTitle(PageTitleText(page)) ELSE None

PipeCompany(page) ==
    LET t == PageTitleText(page)
    IN  IF Truthy(t) /\ Contains(t, <<"|">>) THEN CompanyAfterPipe(t) ELSE None

AtCompany(page) ==
    LET t == PageTitleText(page)
    IN  IF Truthy(t) /\ Contains(t, AtSep) THEN CompanyAfterAt(t) ELSE None

\* C7 (as stated): the title is the first non-empty of the JobPosting title
\* field, the first h1, the first ATS title marker, the truncated page title,
\* and the hostname placeholder.
C7_TitleCascade ==
    Done /\ script = WD =>
        job_title = FirstNonEmpty(<<JobPostingTitle(html), html.h1,
                                    FirstMarkerText(html.title_markers),
                                    TruncatedPageTitle(html)>>,
                                  TitleFromHostname(hostname))

\* C7 (amended): in Not_JoAps-WD.py the first source is the JobPosting's title
\* field or, when that is empty, the name of its identifier object.
C7_TitleCascadeWithIdentifier ==
    Done /\ script = WD =>
        job_title = FirstNonEmpty(<<JobPostingTitleOrIdentifier(html), html.h1,
                                    FirstMarkerText(html.title_markers),
                                    TruncatedPageTitle(html)>>,
                                  TitleFromHostname(hostname))

C7_Witness ==
    /\ Done /\ script = WD
    /\ html.ld_json = <<Dict(Job)>> /\ html.h1 = H1Text
    /\ job_title = LdTitle

\* C8 (as stated): off the Workday pattern the company is the first non-empty
\* of JobPosting hiringOrganization name, og:site_name, itemprop name, ATS
\* company marker, text after the last "|", text after " at ", and the
\* hostname-derived fallback.
C8_CompanyCascade ==
    Done /\ ~is_workday =>
        company = FirstNonEmpty(<<JobPostingCompany(html), StripOrNone(html.og_site_name),
                                  html.org_name, FirstMarkerText(html.company_markers),
                                  PipeCompany(html), AtCompany(html)>>,
                                CompanyFromHostname(hostname))

\* the company sources each script consults, in its order
CompanySources(sc, page) ==
    IF sc = WD
    THEN <<JobPostingCompanyRead(page), StripOrNone(page.og_site_name), page.org_name,
           PipeCompany(page), AtCompany(page)>>
    ELSE <<StripOrNone(page.og_site_name), page.org_name,
           FirstMarkerText(page.company_markers), PipeCompany(page), AtCompany(page)>>

\* C8 (amended): the same cascade, without the ATS company marker step in
\* Not_JoAps-WD.py and without the JobPosting step in Not_JoAps.py.
C8_CompanyCascadePerScript ==
    Done /\ ~is_workday =>
        company = FirstNonEmpty(CompanySources(script, html), CompanyFromHostname(hostname))

C8_Witness ==
    /\ Done /\ ~is_workday /\ script = WD
    /\ html.ld_json = <<Dict(Job)>> /\ html.og_site_name = SiteName
    /\ company = LdCompany

\* C9 (as stated): once a step has given a field a non-empty value, no later
\* step changes it.
C9_FirstMatchWins ==
    [][/\ Truthy(job_title) => job_title' = job_title
       /\ Truthy(company) => company' = company]_vars

\* C9 (amended): ... except that the Workday step of Not_JoAps-WD.py
\* overwrites the company the JSON-LD step assigned.
C9_FirstMatchWinsButWorkday ==
    [][/\ Truthy(job_title) => job_title' = job_title
       /\ Truthy(company) /\ company' # company => CurrentStep = "workday"]_vars

C9_Witness ==
    /\ Done /\ script = WD
    /\ html.ld_json = <<Dict(Job)>> /\ html.h1 = H1Text /\ html.og_site_name = SiteName
    /\ job_title = LdTitle /\ company = LdCompany

\* "C_Dev_Team_AB"
SanitizedAsClaimed == 
    <<"C", "_", "D", "e", "v", "_", "T", "e", "a", "m", "_", "A",
      "B">>
\* "C++_Dev__Team_AB"
SanitizedByCode == 
    <<"C", "+", "+", "_", "D", "e", "v", "_", "_", "T", "e", "a",
      "m", "_", "A", "B">>

SanitizedExample == call = "sanitize" /\ text = ExampleTitle /\ san_result # None

\* C10 (as stated): sanitize_for_filename("C++ Dev / Team: A<B>") is
\* "C_Dev_Team_AB".
C10_ExampleAsClaimed == SanitizedExample => san_result = SanitizedAsClaimed

\* C10 (amended): sanitize_for_filename("C++ Dev / Team: A<B>") is
\* "C++_Dev__Team_AB": "+" is not a forbidden character, and the two spaces
\* left around the removed "/" each become an underscore.
C10_ExampleByCode == SanitizedExample => san_result = SanitizedByCode

C10_Witness == SanitizedExample /\ san_result = SanitizedByCode

\* C11: for every argument, sanitize_for_filename returns the result of
\* collapsing each whitespace run to one space, trimming, deleting the
\* characters \ / : * ? " < > |, replacing each remaining space by an
\* underscore and keeping the first 80 characters, or "Unknown" when that
\* result or the argument is empty; so the value returned is never empty,
\* never longer than 80 characters and holds no whitespace and no forbidden
\* character.
SanitizePipeline(t) ==
    LET positions == [i \in 1..Len(t) |-> i]
        \* a whitespace run is represented by its first character
        runHeads == SelectSeq(positions,
                        LAMBDA i : t[i] \notin Whitespace \/ i = 1 \/ t[i - 1] \notin Whitespace)
        collapsed == [k \in 1..Len(runHeads) |->
                         IF t[runHeads[k]] \in Whitespace THEN " " ELSE t[runHeads[k]]]
        inked == {i \in 1..Len(collapsed) : collapsed[i] # " "}
        trimmed == IF inked = {} THEN <<>>
                   ELSE SubSeq(collapsed,
                               CHOOSE i \in inked : \A j \in inked : i <= j,
                               CHOOSE i \in inked : \A j \in inked : i >= j)
        deleted == SelectSeq(trimmed,
                       LAMBDA c : c \notin {"\\", "/", ":", "*", "?", "\"", "<", ">", "|"})
        underscored == [i \in 1..Len(deleted) |-> IF deleted[i] = " " THEN "_" ELSE deleted[i]]
        kept == IF Len(underscored) > 80 THEN SubSeq(underscored, 1, 80) ELSE underscored
    IN  IF kept = <<>> THEN Unknown ELSE kept

C11_SanitizePipeline ==
    (call = "sanitize" /\ san_result # None) =>
        /\ san_result = (IF text = None \/ text = <<>> THEN Unknown ELSE SanitizePipeline(text))
        /\ san_result # <<>>
        /\ Len(san_result) <= 80
        /\ \A i \in 1..Len(san_result) :
              san_result[i] \notin Whitespace
                  \cup {"\\", "/", ":", "*", "?", "\"", "<", ">", "|"}

\* a long argument was cut to exactly 80 characters, after a forbidden
\* character and a space of it were handled
C11_Witness ==
    /\ call = "sanitize" /\ san_result # None /\ text # None
    /\ Len(text) > 80 /\ Len(san_result) = 80
    /\ \E i \in 1..Len(text) : text[i] = "/"
    /\ \E i \in 1..Len(san_result) : san_result[i] = "_"

\* C12: within one call of compress_png_to_pdf_under_size the target width and
\* the target height of an attempt are never larger than those of the attempt
\* before it, and so (the size being a monotone function of the target pixel
\* dimensions) the document of an attempt is never larger than the document
\* of the attempt before it.
C12_SizesNonIncreasing ==
    [][(call = "compress" /\ attempt >= 1) =>
          /\ target_w' <= target_w
          /\ target_h' <= target_h
          /\ (attempt >= 2 => size' <= size)]_vars

\* a second or later attempt has been measured, on targets smaller than the
\* first attempt's, and its document is smaller than the first attempt's
C12_Witness ==
    /\ call = "compress" /\ attempt >= 2 /\ cpc \in {"accept", "loop"}
    /\ size = PdfSize(img, target_w, target_h)
    /\ target_h < TargetHeight(img.height, ScaleUnit)
    /\ size < PdfSize(img, TargetWidth(img.width, ScaleUnit), TargetHeight(img.height, ScaleUnit))

\* The attempts a call makes on bitmap b with byte budget budget, as the
\* values of one run: the k-th attempt's scale, target dimensions and size
RECURSIVE AttemptsFrom(_, _, _, _)
AttemptsFrom(b, budget, s, k) ==
    LET w == TargetWidth(b.width, s)
        h == TargetHeight(b.height, s)
        sz == PdfSize(b, w, h)
        this == [scale |-> s, w |-> w, h |-> h, size |-> sz]
    IN  IF Accept(sz, budget, s) \/ k = maxAttempts THEN <<this>>
        ELSE <<this>> \o AttemptsFrom(b, budget, NextScale(s), k + 1)

AttemptsOf(b, budget) == AttemptsFrom(b, budget, ScaleUnit, 1)

AttemptScale ==
    IF cpc \in {"loop", "fallback"} /\ attempt >= 1 THEN (scale * 5) \div 4 ELSE scale

\* C14 (as stated): when every attempt stays over budget the document
\* returned is the one produced at scale 0.4, and no attempt is made and no
\* result returned at a scale smaller than 0.4.
C14_StopsAtFloor ==
    (call = "compress" /\ attempt >= 1) =>
        /\ AttemptScale >= ScaleFloor
        /\ (cpc = "returned" /\ size > max_bytes) => AttemptScale = ScaleFloor

\* C14 (amended): when every attempt stays over budget the compressor stops
\* at the first attempt whose scale is at or below 0.4, which is the sixth,
\* at scale 0.8^5 = 0.32768: that attempt's document is returned, every
\* earlier attempt was made at a scale above 0.4, and no attempt is made and
\* no result returned at a scale smaller than 0.32768.
C14_StopsAtFirstScaleUnderFloor ==
    (call = "compress" /\ attempt >= 1) =>
        LET reached == (ScaleUnit * 1024) \div 3125
        IN  /\ AttemptScale >= reached
            /\ attempt < 6 => AttemptScale > ScaleFloor
            /\ (cpc = "returned" /\ size > max_bytes)
                   => /\ attempt = 6
                      /\ AttemptScale = reached
                      /\ size = PdfSize(img, TargetWidth(img.width, reached),
                                        TargetHeight(img.height, reached))

\* a call whose every attempt stayed over budget has returned
C14_Witness ==
    /\ call = "compress" /\ cpc = "returned" /\ size > max_bytes
    /\ \A k \in 1..Len(AttemptsOf(img, max_bytes)) :
          AttemptsOf(img, max_bytes)[k].size > max_bytes

\* C15: if the summarization call fails or yields nothing (request
\* exception, a status that is not OK, no choices, empty content, or an empty
\* company name), generate_company_description returns None and the main loop
\* counts the page as skipped, does not update it and goes on to the next
\* page; no summarization failure aborts the run.
C15_SummarizationFailureSkipped ==
    [][(call = "main" /\ dpc = "generate" /\ groq' \in GroqFailures) =>
          /\ generate_company_description(PageCompany, groq') = None
          /\ \A r \in GroqResponses : generate_company_description(<<>>, r) = None
          /\ dpc' = "page" /\ idx' = idx + 1
          /\ skipped_groq_fail' = skipped_groq_fail + 1
          /\ patched' = patched /\ updated_count' = updated_count]_vars
\* "Job from jobs.example.com"
JobFromExample == 
    <<"J", "o", "b", " ", "f", "r", "o", "m", " ", "j", "o", "b",
      "s", ".", "e", "x", "a", "m", "p", "l", "e", ".", "c", "o",
      "m">>

\* the page has no title-bearing element: no JobPosting object, no h1, no
\* element of an ATS title marker, no og:title and no <title>
NoTitleBearingElement(page) ==
    /\ JobPostings(page) = <<>>
    /\ page.h1 = None
    /\ page.title_markers = NoTitleMarkers
    /\ page.og_title = None
    /\ page.title = None

\* C16: for HTML with no title-bearing element and a URL with host H the
\* extracted title is exactly "Job from H"; for host jobs.example.com it is
\* "Job from jobs.example.com".
C16_TitleFallbackFromHost ==
    (Done /\ NoTitleBearingElement(html) /\ url_host # None /\ url_host # <<>>) =>
        /\ job_title = <<"J", "o", "b", " ", "f", "r", "o", "m", " ">> \o url_host
        /\ url_host = HostExample => job_title = JobFromExample

\* such a page at jobs.example.com, also with company signals present, has
\* been given the placeholder title
C16_Witness ==
    /\ Done /\ NoTitleBearingElement(html) /\ url_host = HostExample
    /\ html.ld_json # <<>> /\ html.og_site_name = SiteName
    /\ job_title = JobFromExample

RECURSIVE ResultsUpTo(_)
\* the results of result pages 1..k, concatenated in order
ResultsUpTo(k) == IF k = 0 THEN <<>> ELSE ResultsUpTo(k - 1) \o ResultsOfPage(k)

\* C17: query_database_excluding_resources returns the concatenation, in
\* order, of the results of every page of the paginated query: after a
\* response with has_more and a next_cursor the next request carries exactly
\* that cursor, the loop stops at the first response without has_more or
\* without next_cursor, no result page is skipped or requested twice, and the
\* call ends whenever the server eventually returns such a last page.
C17_PaginationComplete ==
    /\ [](call = "query" =>
            /\ \A j \in 1..Len(sent) :
                  /\ sent[j] = (IF j = 1 THEN 0 ELSE j)
                  /\ j > 1 => /\ server[j - 1].has_more
                              /\ server[j - 1].next_cursor = sent[j]
            /\ qpc \in {"loop", "returned"} => all_results = ResultsUpTo(Len(sent))
            /\ qpc = "returned" =>
                  /\ Len(sent) >= 1
                  /\ ~(server[Len(sent)].has_more /\ server[Len(sent)].next_cursor # 0))
    /\ <>(call = "query" => qpc \in {"returned", "raised"})

\* a query over three result pages has returned all six results
C17_Witness ==
    /\ call = "query" /\ qpc = "returned"
    /\ Len(sent) = 3 /\ Len(all_results) = 6
    /\ Len(server) = 3

\* round(x * s), s in units of 1/ScaleUnit
RoundScaled(x, s) == (2 * x * s + ScaleUnit) \div (2 * ScaleUnit)

Abs(n) == IF n < 0 THEN 0 - n ELSE n

\* C18: at every attempt the resample target is target_w = max(min_width,
\* round(width * scale)) with target_h scaled proportionally, so that the
\* target has the aspect ratio of the original bitmap up to rounding (one
\* pixel in either dimension), also when the width is clamped to the
\* 800-pixel floor; the target width is never below the floor.
C18_TargetKeepsAspectRatio ==
    (call = "compress" /\ attempt >= 1 /\ cpc # "raised") =>
        /\ target_w = Max(min_width, RoundScaled(img.width, AttemptScale))
        /\ Abs(target_h * img.width - target_w * img.height) <= img.width + img.height
        /\ target_w >= min_width
\* "Senior Engineer"
SeniorEngineer == 
    <<"S", "e", "n", "i", "o", "r", " ", "E", "n", "g", "i", "n",
      "e", "e", "r">>

\* no source of the cascade before the page title gives the script a title
NoEarlierTitle(sc, page) ==
    /\ sc = WD => ~Truthy(JobPostingTitleOrIdentifier(page))
    /\ ~Truthy(page.h1)
    /\ ~Truthy(FirstMarkerText(page.title_markers))

\* the og:title content if present, otherwise the <title> text
PageTitleSource(page) ==
    IF page.og_title # None /\ page.og_title # <<>> THEN page.og_title
    ELSE IF page.title # None /\ page.title # <<>> THEN page.title
    ELSE None

\* the part of t before the earliest occurrence of " - " or "|", trimmed
CutAtEarliestDelimiter(t) ==
    LET dash == IndexOf(t, <<" ", "-", " ">>)
        pipe == IndexOf(t, <<"|">>)
        cut == IF dash = 0 THEN pipe ELSE IF pipe = 0 THEN dash ELSE Min(dash, pipe)
    IN  StripChars(IF cut = 0 THEN t ELSE SubSeq(t, 1, cut - 1), Whitespace)

\* C19: when the title falls through to page-title metadata, the source text
\* is the og:title content if present and otherwise the <title> text, and
\* the title is the part of that text before the earliest occurrence of
\* " - " or "|", trimmed (the cascade going on to the hostname placeholder
\* when that part is empty); "Senior Engineer - Acme Inc" gives
\* "Senior Engineer".
C19_PageTitleCutAtDelimiter ==
    (Done /\ NoEarlierTitle(script, html) /\ PageTitleSource(html) # None) =>
        LET part == CutAtEarliestDelimiter(PageTitleSource(html))
        IN  /\ part # <<>> => job_title = part
            /\ part = <<>> => job_title = TitleFromHostname(hostname)
            /\ PageTitleSource(html) = TitleDash => job_title = SeniorEngineer

\* the example: no og:title, <title> "Senior Engineer - Acme Inc"
C19_Witness ==
    /\ Done /\ NoEarlierTitle(script, html)
    /\ html.og_title = <<>> /\ html.title = TitleDash
    /\ job_title = SeniorEngineer
\* "Acme"
CompanyAcme == <<"A", "c", "m", "e">>

\* no company signal of higher priority than the " at " pattern gives the
\* script a company: the Workday brand, the sources before the page title,
\* and the text after the last "|" of the page title
NoHigherPriorityCompany(sc, page, h) ==
    /\ sc = WD => /\ ~(Contains(h, WorkdayDomain) /\ WorkdayBrand(h) # <<>>)
                  /\ ~Truthy(JobPostingCompanyRead(page))
    /\ sc = Generic => ~Truthy(FirstMarkerText(page.company_markers))
    /\ ~Truthy(StripOrNone(page.og_site_name))
    /\ ~Truthy(page.org_name)
    /\ ~Truthy(PipeCompany(page))

\* the text of t after the first " at ", cut at a following "|" and stripped
\* of separator punctuation
AfterAtCutAtPipe(t) ==
    LET at == IndexOf(t, <<" ", "a", "t", " ">>)
        after == SubSeq(t, at + 4, Len(t))
        pipe == IndexOf(after, <<"|">>)
    IN  StripChars(IF pipe = 0 THEN after ELSE SubSeq(after, 1, pipe - 1), {" ", "-", "|"})

\* C20: when no higher-priority company signal exists and the page title
\* contains " at ", the company is the text after " at ", cut at a following
\* "|" and stripped of separator punctuation (the cascade going on to the
\* hostname fallback when that text is empty); page title
\* "Senior Engineer at Acme | Careers" gives company "Acme".
C20_CompanyAfterAt ==
    (/\ Done /\ NoHigherPriorityCompany(script, html, hostname)
     /\ PageTitleSource(html) # None
     /\ IndexOf(StripChars(PageTitleSource(html), Whitespace), <<" ", "a", "t", " ">>) # 0) =>
        LET guess == AfterAtCutAtPipe(StripChars(PageTitleSource(html), Whitespace))
        IN  /\ guess # <<>> => company = guess
            /\ guess = <<>> => company = CompanyFromHostname(hostname)
            /\ PageTitleSource(html) = TitleAtPipe => company = CompanyAcme

\* the example: page title "Senior Engineer at Acme | Careers", whose "|"
\* step yields nothing
C20_Witness ==
    /\ Done /\ NoHigherPriorityCompany(script, html, hostname)
    /\ PageTitleSource(html) = TitleAtPipe
    /\ PipeCompany(html) = <<>>
    /\ company = CompanyAcme

\* the finally block has been entered
InCleanup == call = "archive" /\ apc \in {"cleanup_pdf", "cleanup_png", "cleanup_dir", "returned", "raised"}

\* C21: in main of the archiving script the local cleanup runs only after
\* every pipeline step has been attempted, and if creating the Notion page
\* fails the produced PDF and the captured PNG are left on disk (they are
\* deleted only when the run succeeds).
C21_FilesKeptWhenRunFails ==
    /\ InCleanup => \A k \in DOMAIN PipelineSteps(no_upload) :
                        PipelineSteps(no_upload)[k] \in attempted
    /\ (call = "archive" /\ apc = "raised" /\ failed = "create")
           => PdfName \in disk /\ PngName \in disk
    /\ (call = "archive" /\ apc = "raised")
           => /\ png_path # NoPath => PngName \in disk
              /\ "pdf" \in attempted /\ failed # "pdf" => PdfName \in disk

\* the page's Company Description is rich text with a part whose plain text
\* has a character that is not whitespace
HasDescription(page) ==
    /\ page.description.type = "rich_text"
    /\ \E i \in DOMAIN page.description.parts :
          /\ page.description.parts[i] # None
          /\ \E c \in DOMAIN page.description.parts[i] :
                page.description.parts[i][c] \notin Whitespace

\* the conditions under which page k may be updated with description d
MayUpdate(k, d) ==
    /\ k \in DOMAIN pages
    /\ get_text_property(pages[k].company) # <<>>
    /\ ~HasDescription(pages[k])
    /\ d # None /\ d # <<>>

\* C22: in the company-description run update_company_description is called
\* for a page only if the page has a non-empty Company value, has no
\* non-empty Company Description rich text and a non-empty description was
\* generated for it; a page that already has a description is never
\* overwritten, each page is processed at most once, and updated_count plus
\* the three skip counters never exceeds the number of pages inspected.
C22_UpdateOnlyWhenMissing ==
    call = "main" =>
        /\ dpc = "update" => MayUpdate(idx, desc)
        /\ \A k \in DOMAIN patched :
              /\ MayUpdate(patched[k].page, patched[k].description)
              /\ patched[k].page < idx
              /\ \A j \in DOMAIN patched : j < k => patched[j].page < patched[k].page
        /\ updated_count = Len(patched)
        /\ updated_count + skipped_no_company + skipped_already_has_desc + skipped_groq_fail
              <= (IF dpc \in {"page", "done"} THEN idx - 1 ELSE idx)
        /\ idx <= Len(pages) + 1

\* a run over two pages has ended: one page was updated, the other already
\* had a description
C22_Witness ==
    /\ call = "main" /\ dpc = "done" /\ Len(pages) = 2
    /\ updated_count = 1 /\ skipped_already_has_desc = 1
    /\ Len(patched) = 1 /\ HasDescription(pages[3 - patched[1].page])

RECURSIVE Power(_, _)
Power(b, n) == IF n = 0 THEN 1 ELSE b * Power(b, n - 1)

\* C23: in compress_png_to_pdf_under_size the scale takes the values 1.0,
\* 0.8, 0.64, 0.512, 0.4096, 0.32768 on attempts 1..6, so the acceptance test
\* is true by the 6th attempt at the latest: every call that returns does so
\* from inside the loop after at most 6 attempts, and the fallback below the
\* loop is never reached.
C23_FallbackNeverReached ==
    call = "compress" =>
        /\ attempt <= 6
        /\ cpc \in {"save_jpeg", "save_pdf", "getsize", "accept", "returned"}
               => scale = (ScaleUnit * Power(4, attempt - 1)) \div Power(5, attempt - 1)
        /\ cpc = "loop" => /\ attempt <= 5
                           /\ scale = (ScaleUnit * Power(4, attempt)) \div Power(5, attempt)
        /\ cpc # "fallback"
        /\ (attempt = 6 /\ cpc \in {"accept", "returned"}) => scale <= ScaleFloor
        /\ cpc = "returned" => PdfName \in files /\ TmpPdfName \notin files

\* a call has returned from inside the loop at the sixth attempt
C23_Witness ==
    /\ call = "compress" /\ cpc = "returned" /\ attempt = 6
    /\ scale = (ScaleUnit * 1024) \div 3125

============================================================================
